---- MODULE Spec2Model ----
(***************************************************************************)
(* Model of eg.py, the Streamlit "Excel/CSV Grouping Tool".                *)
(*                                                                         *)
(* One session of the script: the people file is uploaded, the heads file  *)
(* is uploaded, and "Process and Group" is pressed.  Every upload and      *)
(* every press reruns the script, so grouped_results exists only in the    *)
(* rerun caused by the button.                                             *)
(*                                                                         *)
(* A string read from a cell is a sequence of one-character strings, so    *)
(* that str.strip() and str.lower() are computed, not assumed.  A record   *)
(* of people_data / heads_data is [id, college]: the first column (the     *)
(* primary column) and the column whose header may match a college         *)
(* keyword.  An output row keeps the position of the head record and of    *)
(* the member record it was built from (0 = none) and the status text; the *)
(* "Team Head - k" / "Group Member - k" cells of the row are the fields of *)
(* heads_data[row.head] and people_data[row.member].                       *)
(*                                                                         *)
(* read_excel_file returns ([], '', '') for an unreadable file, a missing  *)
(* sheet and an empty sheet alike; the empty sheet stands for the three.   *)
(* Every record of to_dict(orient='records') carries every column, and     *)
(* astype(str) turns an empty cell into 'nan', so an identifier is always  *)
(* a string: get_identifier yields None only for a record without the      *)
(* primary column, which read_excel_file never builds.                     *)
(***************************************************************************)
EXTENDS Integers, Sequences, FiniteSets, TLC

\* ---------------------------------------------------------------- bounds
MaxHeads == 2
MaxPeople == 3
\* rows of the two sheets together
MaxRows == 5

\* --------------------------------------------------------- uploaded files
\* A cell of the sheet as pandas parses it: a string, or NaN (an empty cell).
Str(s) == [kind |-> "str", v |-> s]
NaN == [kind |-> "nan", v |-> <<>>]

IdCells == {Str(<<"a">>), NaN}
HeadCollegeCells == {Str(<<"X">>), Str(<<"Y", " ">>), Str(<<" ">>)}
PeopleCollegeCells == {Str(<<" ", "x">>), Str(<<"y">>), Str(<<" ">>)}

RECURSIVE SeqsUpTo(_, _)
SeqsUpTo(S, n) ==
    IF n = 0 THEN {<<>>}
    ELSE LET shorter == SeqsUpTo(S, n - 1)
         IN shorter \cup {Append(s, x) : s \in {t \in shorter : Len(t) = n - 1}, x \in S}

\* A sheet has the primary column alone, or the primary column and a second
\* column whose header contains a college keyword ('college', 'university',
\* 'institution', 'school', 'uni').
Files(collegeCells, maxRows) ==
    SeqsUpTo([id : IdCells], maxRows) \cup SeqsUpTo([id : IdCells, college : collegeCells], maxRows)

PeopleFiles == Files(PeopleCollegeCells, MaxPeople)
HeadsFiles == Files(HeadCollegeCells, MaxHeads)

\* ------------------------------------------------------- read_excel_file
\* df.astype(str): NaN becomes the string 'nan'.
astype_str(cell) == IF cell.kind = "nan" THEN <<"n", "a", "n">> ELSE cell.v

\* df.astype(str).to_dict(orient='records')
json_data(df) == [i \in 1..Len(df) |-> [k \in DOMAIN df[i] |-> astype_str(df[i][k])]]

\* The first header containing a keyword whose column is not all-NaN.
auto_detected_college_col(df) ==
    IF \E i \in 1..Len(df) : "college" \in DOMAIN df[i] /\ df[i].college.kind # "nan"
    THEN "college" ELSE ""

read_excel_file(df) ==
    IF df = <<>>
    THEN [json_data |-> <<>>, college_col |-> ""]
    ELSE [json_data |-> json_data(df), college_col |-> auto_detected_college_col(df)]

\* ------------------------------------------------------------------ state
VARIABLES
    people_file,        \* "none" or "uploaded"
    heads_file,
    people_data,
    people_auto_detected_college_column,
    heads_data,
    heads_auto_detected_college_column,
    outcome,            \* what the last rerun showed
    grouped_results,
    assigned_people_identifiers,
    processed_heads_identifiers

vars == <<people_file, heads_file, people_data, people_auto_detected_college_column,
          heads_data, heads_auto_detected_college_column, outcome, grouped_results,
          assigned_people_identifiers, processed_heads_identifiers>>

\* ------------------------------------------------------------ python glue
\* dict.get of a column the record does not have.
None == <<"N", "o", "n", "e", "T", "y", "p", "e">>

get_identifier(item) == IF "id" \in DOMAIN item THEN item.id ELSE None

IsSpace(c) == c = " "

RECURSIVE lstrip(_)
lstrip(s) == IF s # <<>> /\ IsSpace(s[1]) THEN lstrip(Tail(s)) ELSE s

RECURSIVE rstrip(_)
rstrip(s) == IF s # <<>> /\ IsSpace(s[Len(s)]) THEN rstrip(SubSeq(s, 1, Len(s) - 1)) ELSE s

strip(s) == rstrip(lstrip(s))

LowerChar(c) == CASE c = "X" -> "x" [] c = "Y" -> "y" [] OTHER -> c

lower(s) == [i \in 1..Len(s) |-> LowerChar(s[i])]

\* `college and str(college).strip() != ''`
HasCollege(college) == college # <<>> /\ strip(college) # <<>>

normalized_college(college) == lower(strip(college))

\* ------------------------------------------------------------- output rows
NoKey == <<>>

MemberRow(h, m) == [head |-> h, member |-> m, text |-> "", key |-> NoKey]

StatusRow(h, text, key) == [head |-> h, member |-> 0, text |-> text, key |-> key]

UnassignedRow(m, text) == [head |-> 0, member |-> m, text |-> text, key |-> NoKey]

\* ------------------------------------------------ college-based grouping
\* people_by_college / heads_by_college: a dict in insertion order, as a
\* sequence of [key, items]; items are positions in the collection.
KeyPositions(acc, k) == {j \in 1..Len(acc) : acc[j].key = k}

RECURSIVE by_college(_, _, _)
by_college(data, i, acc) ==
    IF i > Len(data) THEN acc
    ELSE LET college == IF "college" \in DOMAIN data[i] THEN data[i].college ELSE <<>>
         IN IF HasCollege(college)
            THEN LET k == normalized_college(college)
                     pos == KeyPositions(acc, k)
                 IN by_college(data, i + 1,
                        IF pos = {}
                        THEN Append(acc, [key |-> k, items |-> <<i>>])
                        ELSE [acc EXCEPT ![CHOOSE j \in pos : TRUE].items = Append(@, i)])
            ELSE by_college(data, i + 1, acc)

\* people_by_college.get(college_name, [])
dict_get(acc, k) ==
    IF KeyPositions(acc, k) = {} THEN <<>>
    ELSE acc[CHOOSE j \in KeyPositions(acc, k) : TRUE].items

\* Variant: the remainder is never handed out.
count_without_remainder(base_per_head, remainder) == base_per_head

\* count_for_this_head = base_per_head, plus one while remainder > 0
count_for_this_head(base_per_head, remainder) ==
    IF remainder > 0 THEN base_per_head + 1 ELSE base_per_head

\* Variant: the remainder is never decremented.
remainder_kept(remainder) == remainder

next_remainder(remainder) == IF remainder > 0 THEN remainder - 1 ELSE remainder

\* The bookkeeping of one run: st = [rows, assigned, processed].
EmptyRun == [rows |-> <<>>, assigned |-> {}, processed |-> {}]

\* Variant: heads of the per-key pass are not recorded.
processed_not_recorded(st, head) == st

add_processed(st, head) ==
    LET head_id == get_identifier(heads_data[head])
    IN IF head_id # None THEN [st EXCEPT !.processed = @ \cup {head_id}] ELSE st

\* The member is emitted only if its identifier is not yet recorded.
add_member(st, head, member) ==
    LET member_id == get_identifier(people_data[member])
    IN IF member_id # None /\ member_id \notin st.assigned
       THEN [st EXCEPT !.rows = Append(@, MemberRow(head, member)),
                       !.assigned = @ \cup {member_id}]
       ELSE st

\* for _ in range(count_for_this_head); idx is current_people_index_in_college
RECURSIVE assign_members(_, _, _, _, _)
assign_members(n, head, people_in_college, idx, st) ==
    IF n = 0 \/ ~(idx < Len(people_in_college)) THEN [idx |-> idx, st |-> st]
    ELSE assign_members(n - 1, head, people_in_college, idx + 1,
                        add_member(st, head, people_in_college[idx + 1]))

\* for head in heads_in_college, when the college has people
RECURSIVE distribute_in_college(_, _, _, _, _, _, _)
distribute_in_college(college_name, heads_in_college, people_in_college, k, remainder, idx, st) ==
    IF k > Len(heads_in_college) THEN st
    ELSE LET head == heads_in_college[k]
             st1 == add_processed(st, head)
             base_per_head == Len(people_in_college) \div Len(heads_in_college)
             cnt == count_for_this_head(base_per_head, remainder)
         IN IF cnt = 0
            THEN distribute_in_college(college_name, heads_in_college, people_in_college,
                     k + 1, next_remainder(remainder), idx,
                     [st1 EXCEPT !.rows =
                         Append(@, StatusRow(head, "No members assigned from", college_name))])
            ELSE LET r == assign_members(cnt, head, people_in_college, idx, st1)
                 IN distribute_in_college(college_name, heads_in_college, people_in_college,
                        k + 1, next_remainder(remainder), r.idx, r.st)

\* elif heads_in_college: heads of a college that has no people
RECURSIVE heads_without_people(_, _, _, _)
heads_without_people(college_name, heads_in_college, k, st) ==
    IF k > Len(heads_in_college) THEN st
    ELSE heads_without_people(college_name, heads_in_college, k + 1,
             [add_processed(st, heads_in_college[k]) EXCEPT !.rows =
                 Append(@, StatusRow(heads_in_college[k],
                                     "No members from {} assigned to this head", college_name))])

\* for college_name, heads_in_college in heads_by_college.items()
RECURSIVE college_pass(_, _, _, _)
college_pass(heads_by_college, people_by_college, c, st) ==
    IF c > Len(heads_by_college) THEN st
    ELSE LET college_name == heads_by_college[c].key
             heads_in_college == heads_by_college[c].items
             people_in_college == dict_get(people_by_college, college_name)
         IN college_pass(heads_by_college, people_by_college, c + 1,
                IF heads_in_college # <<>> /\ people_in_college # <<>>
                THEN distribute_in_college(college_name, heads_in_college, people_in_college, 1,
                         Len(people_in_college) % Len(heads_in_college), 0, st)
                ELSE IF heads_in_college # <<>>
                THEN heads_without_people(college_name, heads_in_college, 1, st)
                ELSE st)

\* heads whose identifier was never added to processed_heads_identifiers
RECURSIVE unprocessed_heads_pass(_, _)
unprocessed_heads_pass(i, st) ==
    IF i > Len(heads_data) THEN st
    ELSE LET head_id == get_identifier(heads_data[i])
         IN unprocessed_heads_pass(i + 1,
                IF head_id # None /\ head_id \notin st.processed
                THEN [st EXCEPT !.rows = Append(@, StatusRow(i,
                         "No members assigned (No college match or college info)", NoKey))]
                ELSE st)

\* [x for x in data if get_identifier(x) not in ids], as positions
RECURSIVE filter_not_in(_, _, _)
filter_not_in(data, ids, i) ==
    IF i > Len(data) THEN <<>>
    ELSE IF get_identifier(data[i]) \notin ids
    THEN <<i>> \o filter_not_in(data, ids, i + 1)
    ELSE filter_not_in(data, ids, i + 1)

not_in(data, ids) == filter_not_in(data, ids, 1)

\* Variant: the sweep ignores the recorded identifiers.
everyone_unassigned(assigned) == not_in(people_data, {})

unassigned_people(assigned) == not_in(people_data, assigned)

\* Variant: the general assignment always cycles through every head.
every_head_available(processed) == [i \in 1..Len(heads_data) |-> i]

\* the unprocessed heads, or every head when each one is processed
available_heads(processed) ==
    LET unprocessed == not_in(heads_data, processed)
    IN IF unprocessed = <<>> THEN [i \in 1..Len(heads_data) |-> i] ELSE unprocessed

\* for person in unassigned_people: round-robin over available_heads
RECURSIVE round_robin(_, _, _, _, _)
round_robin(unassigned, heads, p, head_index, rows) ==
    IF p > Len(unassigned) THEN rows
    ELSE LET hi == IF head_index >= Len(heads) THEN 0 ELSE head_index
         IN round_robin(unassigned, heads, p + 1, hi + 1,
                        Append(rows, MemberRow(heads[hi + 1], unassigned[p])))

general_assignment(st) ==
    LET unassigned == unassigned_people(st.assigned)
        heads == available_heads(st.processed)
    IN IF unassigned = <<>> THEN st
       ELSE IF heads # <<>>
       THEN [st EXCEPT !.rows = round_robin(unassigned, heads, 1, 0, @)]
       ELSE [st EXCEPT !.rows = @ \o [p \in 1..Len(unassigned) |->
                UnassignedRow(unassigned[p],
                    "UNASSIGNED (No matching college head or no available head)")]]

college_grouping ==
    general_assignment(
        unprocessed_heads_pass(1,
            college_pass(by_college(heads_data, 1, <<>>),
                         by_college(people_data, 1, <<>>), 1, EmptyRun)))

\* ------------------------------------------------------- general grouping
\* for j in range(count_for_this_head), from people_index on
RECURSIVE take_people(_, _, _, _)
take_people(n, head, people_index, rows) ==
    IF n = 0 \/ ~(people_index < Len(people_data)) THEN [people_index |-> people_index, rows |-> rows]
    ELSE take_people(n - 1, head, people_index + 1,
                     Append(rows, MemberRow(head, people_index + 1)))

\* for i in range(num_heads)
RECURSIVE heads_loop(_, _, _, _)
heads_loop(i, remainder, people_index, rows) ==
    IF i > Len(heads_data) THEN [people_index |-> people_index, rows |-> rows]
    ELSE LET base_per_head == Len(people_data) \div Len(heads_data)
             cnt == count_for_this_head(base_per_head, remainder)
         IN IF cnt = 0
            THEN heads_loop(i + 1, next_remainder(remainder), people_index,
                            Append(rows, StatusRow(i, "No members assigned", NoKey)))
            ELSE LET r == take_people(cnt, i, people_index, rows)
                 IN heads_loop(i + 1, next_remainder(remainder), r.people_index, r.rows)

\* while people_index < num_people
remaining_people(people_index, rows) ==
    rows \o [p \in 1..(Len(people_data) - people_index) |->
                UnassignedRow(people_index + p, "UNASSIGNED (No more heads available)")]

general_grouping ==
    LET r == heads_loop(1, Len(people_data) % Len(heads_data), 0, <<>>)
    IN [EmptyRun EXCEPT !.rows = remaining_people(r.people_index, r.rows)]

\* -------------------------------------------------- the button's handler
\* Variant: the emptiness guard lets everything through.
always_loaded(data) == FALSE

\* `not people_data`, `not heads_data`
not_loaded(data) == Len(data) = 0

use_college_grouping ==
    people_auto_detected_college_column # "" /\ heads_auto_detected_college_column # ""

Error(msg) == [outcome |-> msg, st |-> EmptyRun]

Finished(st) ==
    [outcome |-> IF st.rows = <<>> THEN "No groups were formed" ELSE "Grouping complete",
     st |-> st]

process_and_group ==
    IF not_loaded(people_data) THEN Error("Please upload the People sheet")
    ELSE IF not_loaded(heads_data) THEN Error("Please upload the Team Heads sheet")
    ELSE IF use_college_grouping THEN Finished(college_grouping)
    ELSE IF Len(heads_data) = 0 THEN Error("No team heads found")
    ELSE Finished(general_grouping)

\* ---------------------------------------------------------------- actions
Init ==
    /\ people_file = "none"
    /\ heads_file = "none"
    /\ people_data = <<>>
    /\ people_auto_detected_college_column = ""
    /\ heads_data = <<>>
    /\ heads_auto_detected_college_column = ""
    /\ outcome = "idle"
    /\ grouped_results = <<>>
    /\ assigned_people_identifiers = {}
    /\ processed_heads_identifiers = {}

\* A rerun in which the button is not pressed shows no results.
NoResults ==
    /\ outcome' = "idle"
    /\ grouped_results' = <<>>
    /\ assigned_people_identifiers' = {}
    /\ processed_heads_identifiers' = {}

UploadPeople ==
    /\ people_file = "none"
    /\ \E file \in PeopleFiles :
          /\ Len(file) + Len(heads_data) <= MaxRows
          /\ people_data' = read_excel_file(file).json_data
          /\ people_auto_detected_college_column' = read_excel_file(file).college_col
    /\ people_file' = "uploaded"
    /\ NoResults
    /\ UNCHANGED <<heads_file, heads_data, heads_auto_detected_college_column>>

UploadHeads ==
    /\ heads_file = "none"
    /\ \E file \in HeadsFiles :
          /\ Len(file) + Len(people_data) <= MaxRows
          /\ heads_data' = read_excel_file(file).json_data
          /\ heads_auto_detected_college_column' = read_excel_file(file).college_col
    /\ heads_file' = "uploaded"
    /\ NoResults
    /\ UNCHANGED <<people_file, people_data, people_auto_detected_college_column>>

\* Pressing the button again reruns the same computation on the same data.
ProcessAndGroup ==
    /\ outcome = "idle"
    /\ LET run == process_and_group
       IN /\ outcome' = run.outcome
          /\ grouped_results' = run.st.rows
          /\ assigned_people_identifiers' = run.st.assigned
          /\ processed_heads_identifiers' = run.st.processed
    /\ UNCHANGED <<people_file, heads_file, people_data, people_auto_detected_college_column,
                   heads_data, heads_auto_detected_college_column>>

Next == UploadPeople \/ UploadHeads \/ ProcessAndGroup

Spec == Init /\ [][Next]_vars

\* =================================================================== claims
\* Vocabulary of the claims, stated on the output rows and the input collections.
H == Len(heads_data)
P == Len(people_data)

Clicked == outcome # "idle"
Ran == outcome \in {"Grouping complete", "No groups were formed"}
GuardErrors == {"Please upload the People sheet", "Please upload the Team Heads sheet"}

RowsWhere(rows, Test(_)) == {i \in 1..Len(rows) : Test(rows[i])}

\* The positions of a set, in collection order.
RECURSIVE Ordered(_)
Ordered(S) ==
    IF S = {} THEN <<>>
    ELSE LET m == CHOOSE x \in S : \A y \in S : x <= y IN <<m>> \o Ordered(S \ {m})

\* The members paired with head h in rows, in output order.
MembersOf(rows, h) ==
    LET at == Ordered({i \in 1..Len(rows) : rows[i].head = h /\ rows[i].member # 0})
    IN [j \in 1..Len(at) |-> rows[at[j]].member]

StatusRowsOf(rows, h) == {i \in 1..Len(rows) : rows[i].head = h /\ rows[i].member = 0}

\* The normalized grouping key of a record; NoKey when absent.
KeyOf(rec) ==
    IF "college" \in DOMAIN rec /\ strip(rec.college) # <<>>
    THEN lower(strip(rec.college)) ELSE NoKey

\* People not recorded as assigned, and the candidate heads, in original order.
Leftover == Ordered({m \in 1..P : people_data[m].id \notin assigned_people_identifiers})
Unhandled == Ordered({h \in 1..H : heads_data[h].id \notin processed_heads_identifiers})
Candidates == IF Unhandled = <<>> THEN Ordered(1..H) ELSE Unhandled

\* The rows emitted before the general assignment of leftovers.
PrimaryRows ==
    IF use_college_grouping /\ Len(grouped_results) >= Len(Leftover)
    THEN SubSeq(grouped_results, 1, Len(grouped_results) - Len(Leftover))
    ELSE grouped_results

Share(p, h, i) == (p \div h) + (IF i <= p % h THEN 1 ELSE 0)
ShareStart(p, h, i) == (i - 1) * (p \div h) + (IF i - 1 <= p % h THEN i - 1 ELSE p % h)

\* C1 (as claimed): Conservation. In every run that groups (at least one head),
\* on the uniform and on the grouped path, every person record of the people
\* collection appears in exactly one output row: none is dropped, none repeated.
C1_Conservation ==
    Ran =>
        \A m \in 1..P : Cardinality({i \in 1..Len(grouped_results) :
                                        grouped_results[i].member = m}) = 1

\* C2: Even distribution. On the uniform path with H >= 1 heads and P people the
\* h-th head is paired with floor(P/H) people, plus one exactly when h <= P mod H.
C2_EvenDistribution ==
    (Clicked /\ ~use_college_grouping /\ H >= 1) =>
        \A h \in 1..H : Len(MembersOf(grouped_results, h)) = Share(P, H, h)

C2_Witness ==
    /\ Ran /\ ~use_college_grouping /\ H = 2 /\ P = 3
    /\ MembersOf(grouped_results, 1) = <<1, 2>>
    /\ MembersOf(grouped_results, 2) = <<3>>

\* C3 (as claimed): No head loss. In every run that groups, every head identifier
\* of the heads collection appears in at least one output row.
C3_NoHeadLoss ==
    Ran =>
        \A h \in 1..H : \E i \in 1..Len(grouped_results) :
            /\ grouped_results[i].head # 0
            /\ heads_data[grouped_results[i].head].id = heads_data[h].id

\* C4: Zero heads is fatal. When the button is pressed with an empty heads
\* collection the run ends in the guard's error and no row is produced, whether
\* or not the people sheet exposes a college column.
C4_ZeroHeadsFatal ==
    (Clicked /\ H = 0) =>
        /\ outcome \in GuardErrors
        /\ grouped_results = <<>>
        /\ assigned_people_identifiers = {}

C4_Witness ==
    /\ Clicked /\ heads_file = "uploaded" /\ H = 0 /\ P >= 1
    /\ people_auto_detected_college_column # ""
    /\ outcome = "Please upload the Team Heads sheet"

\* C5: Each person is assigned to at most one head per run: no person record is
\* the member of more than one output row, also when identifiers are duplicated
\* or missing.
C5_AtMostOneHead ==
    \A m \in 1..P : Cardinality({i \in 1..Len(grouped_results) :
                                    grouped_results[i].member = m}) <= 1

\* Duplicated identifiers, members emitted by the per-key pass and by the
\* general assignment in the same run.
C5_Witness ==
    /\ Ran /\ use_college_grouping
    /\ \E m1, m2 \in 1..P : m1 # m2 /\ people_data[m1].id = people_data[m2].id
    /\ \E m \in 1..P : people_data[m].id = <<"n", "a", "n">>
    /\ \E i \in 1..Len(PrimaryRows) : PrimaryRows[i].member # 0
    /\ Leftover # <<>>

\* C6 (as claimed): on the grouped path every head whose key is absent produces
\* exactly one row with no person and status "No members assigned (No college
\* match or college info)", and no head with a key receives that status.
C6_AbsentKeyHeads ==
    (Ran /\ use_college_grouping) =>
        \A h \in 1..H :
            Cardinality({i \in StatusRowsOf(grouped_results, h) :
                grouped_results[i].text =
                    "No members assigned (No college match or college info)"})
              = IF KeyOf(heads_data[h]) = NoKey THEN 1 ELSE 0

C8_PerKeyDistribution ==
    (Ran /\ use_college_grouping) =>
        \A k \in {KeyOf(heads_data[h]) : h \in 1..H} \ {NoKey} :
            LET hs == Ordered({h \in 1..H : KeyOf(heads_data[h]) = k})
                ps == Ordered({m \in 1..P : KeyOf(people_data[m]) = k})
            IN ps # <<>> =>
                \A i \in 1..Len(hs) :
                    LET size == Share(Len(ps), Len(hs), i)
                        start == ShareStart(Len(ps), Len(hs), i)
                    IN /\ MembersOf(PrimaryRows, hs[i]) = SubSeq(ps, start + 1, start + size)
                       /\ {PrimaryRows[j] : j \in StatusRowsOf(PrimaryRows, hs[i])}
                             = IF size = 0
                               THEN {StatusRow(hs[i], "No members assigned from", k)}
                               ELSE {}
                       /\ Cardinality(StatusRowsOf(PrimaryRows, hs[i]))
                             = IF size = 0 THEN 1 ELSE 0

\* C9: General assignment of leftovers on the grouped path. With U the people
\* not recorded as assigned and C the unhandled heads (all heads when none is
\* unhandled), the last |U| rows pair U[k] with C[k mod |C|] (0-based), in
\* order, and no earlier row contains a person of U.
C9_LeftoverRoundRobin ==
    (Ran /\ use_college_grouping) =>
        LET n == Len(grouped_results) - Len(Leftover)
        IN /\ n >= 0
           /\ \A k \in 1..Len(Leftover) :
                 grouped_results[n + k] =
                     MemberRow(Candidates[((k - 1) % Len(Candidates)) + 1], Leftover[k])
           /\ \A i \in 1..n, k \in 1..Len(Leftover) :
                 grouped_results[i].member # Leftover[k]

\* heads [A(X), B(Y)], people [p1(x), p2(no key), p3(no key)]: p1 goes to A in the
\* per-key pass, B gets its status row, then p2 -> A and p3 -> B, wrapping
\* over the full heads collection.
C9_Witness ==
    /\ Ran /\ use_college_grouping /\ H = 2 /\ P = 3
    /\ KeyOf(heads_data[1]) = <<"x">> /\ KeyOf(heads_data[2]) = <<"y">>
    /\ KeyOf(people_data[1]) = <<"x">>
    /\ Leftover = <<2, 3>> /\ Unhandled = <<>>
    /\ grouped_results = <<MemberRow(1, 1),
                           StatusRow(2, "No members from {} assigned to this head", <<"y">>),
                           MemberRow(1, 2), MemberRow(2, 3)>>

\* C10 (as claimed): a head for which a row with no person was emitted is not
\* paired with a person in any other row of the same run.
C10_StatusConsistent ==
    \A h \in 1..H :
        StatusRowsOf(grouped_results, h) # {} => MembersOf(grouped_results, h) = <<>>

\* C10 (amended): a head for which a row with no person was emitted is not
\* paired with a person by the uniform path or by the per-key pass; only the
\* general assignment of leftovers pairs such a head with people.
C10_StatusConsistentPrimary ==
    \A h \in 1..H :
        StatusRowsOf(grouped_results, h) # {} => MembersOf(PrimaryRows, h) = <<>>

C10_Witness ==
    /\ Ran /\ use_college_grouping
    /\ \E h \in 1..H :
          /\ StatusRowsOf(grouped_results, h) # {}
          /\ MembersOf(grouped_results, h) # <<>>
          /\ MembersOf(PrimaryRows, h) = <<>>
    /\ \E h \in 1..H : MembersOf(PrimaryRows, h) # <<>>

====
